---- MODULE Spec2Model ----
(***************************************************************************)
(* Model of scripts/create_parquet.py: the command line of main, the size  *)
(* parser parse_size, the row-batch synthesizer make_rowgroup and the      *)
(* size-convergence loop write_to_target, run against an opaque sink (the  *)
(* Parquet writer and the file it writes).                                 *)
(*                                                                         *)
(* Strings are sequences of one-character strings.  The overshoot, a float *)
(* in the code, is carried as an integer number of percent, so that        *)
(* size >= target * (1.0 + overshoot) is the exact integer comparison      *)
(* size * 100 >= target * (100 + pct).                                     *)
(***************************************************************************)
EXTENDS Integers, Sequences, FiniteSets, TLC

\* ------------------------------------------------------------------ bounds
MaxTargets == 2      \* entries in the --targets list
MaxRows == 2         \* largest --row-group-rows
MaxCap == 2          \* largest --max-row-groups
MaxClock == 1        \* wall-clock readings are 0..MaxClock
MaxDelta == 2        \* largest growth of the file per append

\* ------------------------------------------------------- program constants
KB == 1024
WeekMs == 7 * 24 * 3600 * 1000
JitterMs == 2000
UserMod == 5000000
SessionHi == 50000000

\* ------------------------------------------------------------- characters
Digits == <<"0", "1", "2", "3", "4", "5", "6", "7", "8", "9">>

IsDigit(c) == \E i \in 1..10 : Digits[i] = c

DigitVal(c) == (CHOOSE i \in 1..10 : Digits[i] = c) - 1

IsSpace(c) == c = " "

\* str.upper() on the letters of the alphabet used here
UpperChar(c) ==
  CASE c = "k" -> "K"
    [] c = "b" -> "B"
    [] c = "m" -> "M"
    [] c = "g" -> "G"
    [] c = "t" -> "T"
    [] c = "x" -> "X"
    [] OTHER -> c

Upper(s) == [i \in 1..Len(s) |-> UpperChar(s[i])]

RECURSIVE LStrip(_)
LStrip(s) == IF s # <<>> /\ IsSpace(Head(s)) THEN LStrip(Tail(s)) ELSE s

RECURSIVE RStrip(_)
RStrip(s) ==
  IF s # <<>> /\ IsSpace(s[Len(s)]) THEN RStrip(SubSeq(s, 1, Len(s) - 1)) ELSE s

\* str.strip()
Strip(s) == RStrip(LStrip(s))

\* str.replace("_", "")
RemoveUnderscores(s) == SelectSeq(s, LAMBDA c : c # "_")

\* str.endswith(u)
EndsWith(s, u) ==
  /\ Len(s) >= Len(u)
  /\ SubSeq(s, Len(s) - Len(u) + 1, Len(s)) = u

\* str.split(","): the pieces between the commas, empty pieces included
RECURSIVE Split(_, _)
Split(s, cur) ==
  IF s = <<>> THEN <<cur>>
  ELSE IF Head(s) = "," THEN <<cur>> \o Split(Tail(s), <<>>)
  ELSE Split(Tail(s), Append(cur, Head(s)))

RECURSIVE Pow10(_)
Pow10(n) == IF n = 0 THEN 1 ELSE 10 * Pow10(n - 1)

RECURSIVE DigitsVal(_)
DigitsVal(s) ==
  IF s = <<>> THEN 0 ELSE 10 * DigitsVal(SubSeq(s, 1, Len(s) - 1)) + DigitVal(s[Len(s)])

AllDigits(s) == \A i \in 1..Len(s) : IsDigit(s[i])

HasSign(s) == s # <<>> /\ Head(s) \in {"-", "+"}

Unsigned(s) == IF HasSign(s) THEN Tail(s) ELSE s

SignOf(s) == IF s # <<>> /\ Head(s) = "-" THEN -1 ELSE 1

\* int(s) accepts an optional sign and at least one digit
IntOk(s) == Unsigned(s) # <<>> /\ AllDigits(Unsigned(s))

IntVal(s) == SignOf(s) * DigitsVal(Unsigned(s))

DotAt(s) == IF \E i \in 1..Len(s) : s[i] = "." THEN CHOOSE i \in 1..Len(s) : s[i] = "." ELSE 0

IntPart(s) == IF DotAt(s) = 0 THEN s ELSE SubSeq(s, 1, DotAt(s) - 1)

FracPart(s) == IF DotAt(s) = 0 THEN <<>> ELSE SubSeq(s, DotAt(s) + 1, Len(s))

\* float(s) accepts an optional sign, digits and at most one point, with a
\* digit on at least one side of it
FloatOk(s) ==
  LET u == Unsigned(s) IN
  /\ AllDigits(IntPart(u))
  /\ AllDigits(FracPart(u))
  /\ Len(IntPart(u)) + Len(FracPart(u)) >= 1

\* float(s) as the exact fraction num / den
FloatNum(s) ==
  LET u == Unsigned(s) IN
  SignOf(s) * (DigitsVal(IntPart(u)) * Pow10(Len(FracPart(u))) + DigitsVal(FracPart(u)))

FloatDen(s) == Pow10(Len(FracPart(Unsigned(s))))

\* int(x) of the fraction a / b, b > 0: truncation toward zero
Trunc(a, b) == IF a >= 0 THEN a \div b ELSE -((-a) \div b)

Units == <<"TB", "GB", "MB", "KB", "B">>

UnitChars(u) ==
  CASE u = "TB" -> <<"T", "B">>
    [] u = "GB" -> <<"G", "B">>
    [] u = "MB" -> <<"M", "B">>
    [] u = "KB" -> <<"K", "B">>
    [] u = "B" -> <<"B">>

mults(u) ==
  CASE u = "TB" -> KB * KB * KB * KB
    [] u = "GB" -> KB * KB * KB
    [] u = "MB" -> KB * KB
    [] u = "KB" -> KB
    [] u = "B" -> 1

Normalized(s) == RemoveUnderscores(Upper(Strip(s)))

\* the first unit, in the order TB GB MB KB B, that the string ends with; 0 if none
UnitOf(n) ==
  IF \E i \in 1..5 : EndsWith(n, UnitChars(Units[i]))
  THEN CHOOSE i \in 1..5 :
         /\ EndsWith(n, UnitChars(Units[i]))
         /\ \A j \in 1..(i - 1) : ~EndsWith(n, UnitChars(Units[j]))
  ELSE 0

NumberOf(n) == Strip(SubSeq(n, 1, Len(n) - Len(UnitChars(Units[UnitOf(n)]))))

\* parse_size(s) raises ValueError
parse_size_fails(s) ==
  LET n == Normalized(s) IN
  IF UnitOf(n) # 0 THEN ~FloatOk(NumberOf(n)) ELSE ~IntOk(n)

\* parse_size(s) where it does not raise
parse_size(s) ==
  LET n == Normalized(s) IN
  IF UnitOf(n) # 0
  THEN Trunc(FloatNum(NumberOf(n)) * mults(Units[UnitOf(n)]), FloatDen(NumberOf(n)))
  ELSE IntVal(n)


\* human_bytes(n) as <<hundredths, unit>>: f"{f:.2f} {u}" of n / 1024^k, the
\* division by a power of two being exact and the rounding half-to-even
RoundHalfEven(a, b) ==
  LET q == a \div b
      r == a % b
  IN IF 2 * r > b \/ (2 * r = b /\ q % 2 = 1) THEN q + 1 ELSE q

RECURSIVE human_bytes_from(_, _, _)
human_bytes_from(n, d, k) ==
  IF n < KB * d \/ k = 5
  THEN <<RoundHalfEven(n * 100, d), <<"B", "KB", "MB", "GB", "TB">>[k]>>
  ELSE human_bytes_from(n, d * KB, k + 1)

human_bytes(n) == human_bytes_from(n, 1, 1)

\* --------------------------------------------------------------- generator
RngMod == 16

\* np.random.default_rng(seed)
default_rng(seed) == seed % RngMod

\* one step of the generator; the value drawn is the new state
RngNext(s) == (5 * s + 3) % RngMod

RECURSIVE RngAfter(_, _)
RngAfter(s, k) == IF k = 0 THEN s ELSE RngAfter(RngNext(s), k - 1)

\* make_rowgroup raises for a row count it cannot materialize: np.apply_along_axis
\* rejects an empty (0, 5) array and the generator rejects a negative size
make_rowgroup_fails(n_rows) == n_rows <= 0

\* the range started one too high
RowIds_OffByOne(n_rows, base_id) == [i \in 1..n_rows |-> base_id + i]

\* np.arange(base_id, base_id + n_rows)
RowIds(n_rows, base_id) == [i \in 1..n_rows |-> base_id + i - 1]

\* make_rowgroup: the id column, the three columns drawn first from the generator
\* (each takes n_rows draws in turn) and the generator left behind.  The later
\* columns are further draws on the same generator and are not carried.
make_rowgroup(n_rows, rng, base_id, start_ts_ms) ==
  LET ids == RowIds(n_rows, base_id)
  IN [tbl |->
        [event_id |-> ids,
         user_id |-> [i \in 1..n_rows |-> ((1 + RngAfter(rng, i)) % UserMod) + 1],
         session_id |-> [i \in 1..n_rows |-> 1 + (RngAfter(rng, n_rows + i) % (SessionHi - 1))],
         event_ts |-> [i \in 1..n_rows |->
                         start_ts_ms + (ids[i] % WeekMs)
                           + (RngAfter(rng, 2 * n_rows + i) % JitterMs)]],
      rng |-> RngAfter(rng, 3 * n_rows)]

\* ------------------------------------------------------------------ inputs
\* entries of the --targets list: a size and a string that is not one
Entries == { <<"2">>, <<"x">> }

RECURSIVE Join(_)
Join(es) == IF Len(es) = 1 THEN es[1] ELSE es[1] \o <<",">> \o Join(Tail(es))

EntryLists == UNION { [1..k -> Entries] : k \in 1..MaxTargets }

\* further --targets values: a unit with a fraction, a negative size, a unit
\* without a number, blank entries, two different sizes in both orders
MoreLists ==
  { << <<".", "0", "0", "4", "k", "b">> >>,
    << <<"-", "1">> >>,
    << <<"K", "B">> >>,
    << <<" ">>, <<" ", "2", "_", "B", " ">> >>,
    << <<"2">>, <<".", "0", "0", "4", "k", "b">> >>,
    << <<".", "0", "0", "4", "k", "b">>, <<"2">> >>,
    << <<"-", "1">>, <<"2">> >>,
    << <<"2">>, <<>>, <<"K", "B">> >> }

TargetArgs == { Join(es) : es \in EntryLists \cup MoreLists }

Seeds == {1, 2}

OvershootPcts == {-50, 0, 50}

Args ==
  [targets : TargetArgs,
   seed : Seeds,
   row_group_rows : 0..MaxRows,
   overshoot_pct : OvershootPcts,
   max_row_groups : 0..MaxCap]

\* ------------------------------------------------------------------- state
VARIABLES
  args,         \* the parsed command line
  pc,           \* position of the program
  targets,      \* main: the parsed target sizes
  ti,           \* main: index of the target being written
  clock,        \* the last wall-clock reading, in ms
  files,        \* names of the output files that exist
  fileSize,     \* persisted size of the file at out_path
  rng,          \* write_to_target locals
  start_ts_ms,
  writer,
  row_groups,
  base_id,
  tbl,
  size,
  pending,      \* how the try block is being left
  outcome,      \* what reached the caller of write_to_target
  calls,        \* history: the number of calls of write_to_target so far
  log,          \* history: the file and sink operations of the current call
  handed,       \* history: the batches the current call passed to write_table
  observed,     \* history: the sizes the current call read back
  previous      \* history: target and batches of the call before the current one

vars ==
  <<args, pc, targets, ti, clock, files, fileSize, rng, start_ts_ms, writer,
    row_groups, base_id, tbl, size, pending, outcome, calls, log, handed, observed,
    previous>>

history == <<calls, log, handed, observed, previous>>

locals == <<rng, start_ts_ms, writer, row_groups, base_id, tbl, size>>

NoTable == [event_id |-> <<>>, user_id |-> <<>>, session_id |-> <<>>, event_ts |-> <<>>]

None == [kind |-> "none", value |-> 0]

Init ==
  /\ args \in Args
  /\ pc = "parse"
  /\ targets = <<>>
  /\ ti = 0
  /\ clock = 0
  /\ files = {}
  /\ fileSize = 0
  /\ rng = 0
  /\ start_ts_ms = 0
  /\ writer = "none"
  /\ row_groups = 0
  /\ base_id = 0
  /\ tbl = NoTable
  /\ size = 0
  /\ pending = None
  /\ outcome = None
  /\ calls = 0
  /\ log = <<>>
  /\ handed = <<>>
  /\ observed = <<>>
  /\ previous = [target |-> 0, handed |-> <<>>]

target_bytes == targets[ti]

out_path == human_bytes(target_bytes)

\* the overshoot taken off the target instead of added to it
ReachedThreshold_SignSlip(sz, target, pct) == sz * 100 >= target * (100 - pct)

\* a strict comparison in place of >=
ReachedThreshold_Strict(sz, target, pct) == sz * 100 > target * (100 + pct)

\* size >= target_bytes * (1.0 + overshoot_pct)
ReachedThreshold(sz, target, pct) == sz * 100 >= target * (100 + pct)

\* entries that do not parse are dropped instead of raising
KeptEntries_SkipInvalid(s) ==
  SelectSeq(Split(s, <<>>), LAMBDA x : Strip(x) # <<>> /\ ~parse_size_fails(x))

\* line 347: the entries of the list that are not blank
KeptEntries(s) == SelectSeq(Split(s, <<>>), LAMBDA x : Strip(x) # <<>>)

\* the writer is opened on every iteration
AfterSynthesis_Reopen(w) == "open"

\* line 267: the writer is opened only while there is none
AfterSynthesis(w) == IF w = "none" THEN "open" ELSE "append"

\* the cap compared with > in place of >=
CapReached_OffByOne(rg, max_row_groups) == rg > max_row_groups

\* the cap hit one row group early
CapReached_Early(rg, max_row_groups) == rg + 1 >= max_row_groups

\* line 283
CapReached(rg, max_row_groups) == rg >= max_row_groups

\* the test of the finally block inverted
MustClose_Inverted(w) == w = "none"

\* line 288
MustClose(w) == w # "none"

\* the failure of one target is swallowed and the loop goes on
AfterCall_Swallow(kind) == "next"

\* lines 366-377: main goes on to the next target after a return and has no
\* handler for an exception
AfterCall(kind) == IF kind = "return" THEN "next" ELSE "failed"

\* main, lines 341-360: the whole target list is parsed before the loop starts
ParseArgs ==
  /\ pc = "parse"
  /\ LET kept == KeptEntries(args.targets)
     IN IF \E i \in 1..Len(kept) : parse_size_fails(kept[i])
        THEN /\ pc' = "failed"
             /\ outcome' = [kind |-> "ValueError", value |-> 0]
             /\ UNCHANGED <<targets, ti>>
        ELSE /\ pc' = "next"
             /\ targets' = [i \in 1..Len(kept) |-> parse_size(kept[i])]
             /\ ti' = 1
             /\ UNCHANGED outcome
  /\ UNCHANGED <<args, clock, files, fileSize, locals, pending, history>>

\* main, line 362: the loop over the targets is exhausted
Finish ==
  /\ pc = "next"
  /\ ti > Len(targets)
  /\ pc' = "done"
  /\ UNCHANGED <<args, targets, ti, clock, files, fileSize, locals, pending, outcome,
                 history>>

\* main, lines 362-366, and write_to_target up to the try, lines 250-260
Call ==
  /\ pc = "next"
  /\ ti <= Len(targets)
  /\ files' = files \ {out_path}
  /\ log' = IF out_path \in files THEN <<"unlink">> ELSE <<>>
  /\ fileSize' = 0
  /\ rng' = default_rng(args.seed)
  /\ \E now \in clock..MaxClock :
       /\ clock' = now
       /\ start_ts_ms' = now
  /\ writer' = "none"
  /\ row_groups' = 0
  /\ base_id' = 0
  /\ tbl' = NoTable
  /\ size' = 0
  /\ pending' = None
  /\ outcome' = None
  /\ calls' = calls + 1
  /\ handed' = <<>>
  /\ observed' = <<>>
  /\ previous' = IF calls = 0 THEN previous ELSE [target |-> targets[ti - 1], handed |-> handed]
  /\ pc' = "synth"
  /\ UNCHANGED <<args, targets, ti>>

\* an exception leaves the try block
Raise(kind) ==
  /\ pending' = [kind |-> kind, value |-> 0]
  /\ pc' = "finally"

\* lines 264-266
Synthesize ==
  /\ pc = "synth"
  /\ \/ /\ ~make_rowgroup_fails(args.row_group_rows)
        /\ LET r == make_rowgroup(args.row_group_rows, rng, base_id, start_ts_ms)
           IN /\ tbl' = r.tbl
              /\ rng' = r.rng
        /\ log' = Append(log, "synth")
        /\ pc' = AfterSynthesis(writer)
        /\ UNCHANGED pending
     \/ /\ Raise("SynthesisError")
        /\ UNCHANGED <<tbl, rng, log>>
  /\ UNCHANGED <<args, targets, ti, clock, files, fileSize, start_ts_ms, writer,
                 row_groups, base_id, size, outcome, calls, handed, observed, previous>>

\* lines 267-273
OpenWriter ==
  /\ pc = "open"
  /\ \/ /\ writer' = "open"
        /\ files' = files \cup {out_path}
        /\ fileSize' = 0
        /\ log' = Append(log, "open")
        /\ pc' = "append"
        /\ UNCHANGED pending
     \/ /\ Raise("SinkError")
        /\ UNCHANGED <<writer, files, fileSize, log>>
  /\ UNCHANGED <<args, targets, ti, clock, rng, start_ts_ms, row_groups, base_id, tbl,
                 size, outcome, calls, handed, observed, previous>>

\* lines 274-277
WriteTable ==
  /\ pc = "append"
  /\ \/ /\ \E d \in 0..MaxDelta : fileSize' = fileSize + d
        /\ handed' = Append(handed, tbl)
        /\ log' = Append(log, "append")
        /\ row_groups' = row_groups + 1
        /\ base_id' = base_id + args.row_group_rows
        /\ pc' = "stat"
        /\ UNCHANGED pending
     \/ /\ Raise("SinkError")
        /\ UNCHANGED <<fileSize, handed, log, row_groups, base_id>>
  /\ UNCHANGED <<args, targets, ti, clock, files, rng, start_ts_ms, writer, tbl, size,
                 outcome, calls, observed, previous>>

\* lines 279-286
StatAndCheck ==
  /\ pc = "stat"
  /\ \/ /\ size' = fileSize
        /\ observed' = Append(observed, fileSize)
        /\ log' = Append(log, "stat")
        /\ IF ReachedThreshold(fileSize, target_bytes, args.overshoot_pct)
           THEN /\ pending' = [kind |-> "return", value |-> fileSize]
                /\ pc' = "finally"
           ELSE IF CapReached(row_groups, args.max_row_groups)
           THEN /\ pending' = [kind |-> "RuntimeError", value |-> fileSize]
                /\ pc' = "finally"
           ELSE /\ pc' = "synth"
                /\ UNCHANGED pending
     \/ /\ Raise("SinkError")
        /\ UNCHANGED <<size, observed, log>>
  /\ UNCHANGED <<args, targets, ti, clock, files, fileSize, rng, start_ts_ms, writer,
                 row_groups, base_id, tbl, outcome, calls, handed, previous>>

\* lines 287-289, then the caller: main prints and moves on after a return
\* (line 377) and has no handler for an exception
Finally ==
  /\ pc = "finally"
  /\ \E closeFails \in BOOLEAN :
       LET closing == MustClose(writer)
           result == IF closing /\ closeFails
                     THEN [kind |-> "SinkError", value |-> 0]
                     ELSE pending
       IN /\ closing \/ ~closeFails
          /\ writer' = IF closing THEN "closed" ELSE writer
          /\ outcome' = result
          /\ log' = log \o (IF closing THEN <<"close">> ELSE <<>>)
                        \o <<IF result.kind = "return" THEN "return" ELSE "raise">>
          /\ pc' = AfterCall(result.kind)
          /\ ti' = IF AfterCall(result.kind) = "next" THEN ti + 1 ELSE ti
  /\ UNCHANGED <<args, targets, clock, files, fileSize, rng, start_ts_ms, row_groups,
                 base_id, tbl, size, pending, calls, handed, observed, previous>>

Next ==
  \/ ParseArgs
  \/ Finish
  \/ Call
  \/ Synthesize
  \/ OpenWriter
  \/ WriteTable
  \/ StatAndCheck
  \/ Finally

Spec == Init /\ [][Next]_vars

\* the steps of write_to_target
CallStep == Synthesize \/ OpenWriter \/ WriteTable \/ StatAndCheck \/ Finally

\* a call that has begun keeps running: the program is one thread and
\* nothing can suspend it between two statements
FairSpec == Spec /\ WF_vars(CallStep)


\* ------------------------------------------------------------ vocabulary
\* the target of the current call of write_to_target, or of the last one
CallTarget == targets[calls]

\* the comparison of line 281, written out
Crosses(sz) == sz * 100 >= CallTarget * (100 + args.overshoot_pct)

Returned == outcome.kind = "return"

CapacityExceeded == outcome.kind = "RuntimeError"

MaxOf(a, b) == IF a >= b THEN a ELSE b

MinOf(a, b) == IF a <= b THEN a ELSE b

\* bytes the last append added to the file, which was created empty
LastGrowth ==
  observed[Len(observed)] - (IF Len(observed) = 1 THEN 0 ELSE observed[Len(observed) - 1])

Count(op) == Cardinality({i \in 1..Len(log) : log[i] = op})

IsExit(op) == op \in {"return", "raise"}

\* the current call has ended
Finished == \E i \in 1..Len(log) : IsExit(log[i])

\* the operations of the loop body, in the order they happened
BodyLog == SelectSeq(log, LAMBDA op : op \in {"synth", "open", "append", "stat"})

InCall == pc \in {"synth", "open", "append", "stat", "finally"}

\* ------------------------------------------------------------------- C1
\* C1 as stated: every size that write_to_target returns is at least
\* target_bytes and at most target_bytes * (1 + overshoot) plus the bytes the
\* last row group added, for every target and every overshoot.
C1_AsStated ==
  Returned =>
    /\ outcome.value >= CallTarget
    /\ outcome.value * 100 <= CallTarget * (100 + args.overshoot_pct) + LastGrowth * 100

\* C1 amended: for target_bytes >= 0 and overshoot >= 0, every size that
\* write_to_target returns is at least target_bytes * (1 + overshoot), so at
\* least target_bytes, and at most target_bytes * (1 + overshoot) plus the
\* bytes the last row group added.
C1_SizeConvergence ==
  (Returned /\ CallTarget >= 0 /\ args.overshoot_pct >= 0) =>
    /\ outcome.value * 100 >= CallTarget * (100 + args.overshoot_pct)
    /\ outcome.value >= CallTarget
    /\ outcome.value * 100 <= CallTarget * (100 + args.overshoot_pct) + LastGrowth * 100

C1_Witness ==
  /\ Returned
  /\ CallTarget > 0
  /\ args.overshoot_pct > 0
  /\ Len(observed) = 2
  /\ outcome.value > CallTarget

\* ------------------------------------------------------------------- C2
\* C2 as stated: no call appends more than max_row_groups row groups, for
\* every max_row_groups.
C2_AsStated == row_groups <= args.max_row_groups

\* the cap is reached and no size read back has crossed the threshold
Exhausted ==
  /\ calls >= 1
  /\ Len(observed) = row_groups
  /\ row_groups >= MaxOf(1, args.max_row_groups)
  /\ \A i \in 1..Len(observed) : ~Crosses(observed[i])

\* C2 amended: a call appends at most max(1, max_row_groups) row groups (one
\* row group is appended before the cap is first looked at); once that many
\* sizes have been read back without crossing the threshold the call is
\* failing with RuntimeError (or with the failure of the close); and every
\* call ends, by a return or by a failure.
C2_CapAndTermination ==
  /\ [](row_groups <= MaxOf(1, args.max_row_groups))
  /\ [](Exhausted =>
          \/ pc = "finally" /\ pending.kind = "RuntimeError"
          \/ pc = "failed" /\ outcome.kind \in {"RuntimeError", "SinkError"})
  /\ [](InCall => <>(pc \in {"next", "done", "failed"}))

C2_Witness ==
  /\ CapacityExceeded
  /\ args.max_row_groups = 2
  /\ row_groups = 2

\* ------------------------------------------------------------------- C3
\* C3 as stated: every call that has ended, whatever way it ended, closed
\* the sink exactly once.
C3_AsStated == Finished => Count("close") = 1

\* C3 amended: a call that opened the sink closes it exactly once, and a
\* call that ends before the sink was opened (synthesis or the open failed
\* on the first iteration) never closes it; the close is the last thing
\* before the result or the failure reaches the caller, and no append or
\* size query follows it.
C3_SinkRelease ==
  /\ Count("close") <= 1
  /\ Finished => Count("close") = Count("open")
  /\ \A i \in 1..Len(log) :
       /\ log[i] = "close" => (i < Len(log) => (i = Len(log) - 1 /\ IsExit(log[Len(log)])))
       /\ IsExit(log[i]) =>
            /\ i = Len(log)
            /\ Count("open") = 1 => (i > 1 /\ log[i - 1] = "close")

C3_Witness ==
  /\ calls = 2
  /\ Finished
  /\ outcome.kind = "SinkError"
  /\ Count("open") = 1
  /\ Count("append") = 1
  /\ Count("stat") = 0
  /\ Count("close") = 1

\* ------------------------------------------------------------------- C4
\* C4: in every call, batch number i (from 0) carries the row ids
\* i * row_group_rows .. (i + 1) * row_group_rows - 1 in increasing order, so
\* that after k appends the ids handed over are exactly 0 .. k * row_group_rows - 1.
C4_RowIdContinuity ==
  \A i \in 1..Len(handed) :
    handed[i].event_id =
      [j \in 1..args.row_group_rows |-> (i - 1) * args.row_group_rows + (j - 1)]

C4_Witness ==
  /\ args.row_group_rows = 2
  /\ Len(handed) = 2
  /\ handed[2].event_id = <<2, 3>>

\* ------------------------------------------------------------------- C5
\* C5: two calls of write_to_target with the same seed, row-group size,
\* target, overshoot and cap hand the sink the same batches, column for
\* column, the timestamp column included, for as long as both go on.
C5_Determinism ==
  (calls >= 2 /\ previous.target = CallTarget) =>
    \A i \in 1..MinOf(Len(handed), Len(previous.handed)) : handed[i] = previous.handed[i]

\* ------------------------------------------------------------------- C6
\* C6 as stated: when the program has ended on a capacity-exceeded failure,
\* every target of the list has been written to.
C6_AsStated ==
  (pc = "failed" /\ CapacityExceeded) => calls = Len(targets)

\* C6 amended: when write_to_target fails with capacity-exceeded for one
\* target, that target is not retried and the failure ends main: no later
\* target of the list is processed.
C6_FailureEndsRun ==
  /\ [](CapacityExceeded =>
          /\ pc = "failed"
          /\ calls = ti
          /\ Count("raise") = 1)
  /\ [][pc # "failed"]_vars

C6_Witness ==
  /\ pc = "failed"
  /\ CapacityExceeded
  /\ ti = 1
  /\ Len(targets) = 2

\* ------------------------------------------------------------------- C7
\* an entry that matches no unit and is not an integer
InvalidSize(x) ==
  /\ Strip(x) # <<>>
  /\ \A i \in 1..5 : ~EndsWith(RemoveUnderscores(Upper(Strip(x))), UnitChars(Units[i]))
  /\ ~IntOk(RemoveUnderscores(Upper(Strip(x))))

HasInvalidSize ==
  \E i \in 1..Len(Split(args.targets, <<>>)) : InvalidSize(Split(args.targets, <<>>)[i])

\* C7: when any entry of the target list, at any position, matches no unit
\* and is not an integer, the run fails with no output file deleted, opened
\* or appended to, for any target.
C7_InvalidSizeBeforeWriting ==
  HasInvalidSize =>
    /\ pc \in {"parse", "failed"}
    /\ pc = "failed" => outcome.kind = "ValueError"
    /\ calls = 0
    /\ log = <<>>
    /\ handed = <<>>
    /\ files = {}

C7_Witness ==
  /\ pc = "failed"
  /\ outcome.kind = "ValueError"
  /\ Len(Split(args.targets, <<>>)) = 2
  /\ ~parse_size_fails(Split(args.targets, <<>>)[1])
  /\ InvalidSize(Split(args.targets, <<>>)[2])

\* ------------------------------------------------------------------- C8
RECURSIVE RowsIn(_)
RowsIn(bs) == IF bs = <<>> THEN 0 ELSE Len(Head(bs).event_id) + RowsIn(Tail(bs))

\* C8: a call that returns has appended exactly n row groups, where n is the
\* first append after which the size read back is at or above the threshold;
\* it returns that size, has written n * row_group_rows rows, and n is within
\* a cap of one or more.  No row group is ever appended once a size at or
\* above the threshold has been read back.
C8_FirstCrossing ==
  /\ Returned =>
       /\ row_groups = Len(observed)
       /\ row_groups >= 1
       /\ Crosses(observed[row_groups])
       /\ \A i \in 1..(row_groups - 1) : ~Crosses(observed[i])
       /\ outcome.value = observed[row_groups]
       /\ Len(handed) = row_groups
       /\ RowsIn(handed) = row_groups * args.row_group_rows
       /\ args.max_row_groups >= 1 => row_groups <= args.max_row_groups
  /\ \A i \in 1..Len(observed) :
       Crosses(observed[i]) => (i = Len(observed) /\ Len(handed) = i)

C8_Witness ==
  /\ Returned
  /\ row_groups = 2
  /\ args.overshoot_pct = 50
  /\ CallTarget = 2
  /\ observed = <<2, 3>>

\* ------------------------------------------------------------------- C9
\* C9 as stated: a capacity-exceeded failure means max_row_groups row groups
\* were written and every size read back, the last one included, is below
\* target_bytes.
C9_AsStated ==
  CapacityExceeded =>
    /\ row_groups = args.max_row_groups
    /\ \A i \in 1..Len(observed) : observed[i] < CallTarget

\* C9 amended: a capacity-exceeded failure means max(1, max_row_groups) row
\* groups were written and every size read back, the last one included, is
\* below the stop threshold target_bytes * (1 + overshoot); it may be at or
\* above target_bytes.  The call never fails with capacity-exceeded once a
\* size at or above the threshold has been read back.
C9_CapacityMeansBelowThreshold ==
  CapacityExceeded =>
    /\ row_groups = MaxOf(1, args.max_row_groups)
    /\ Len(observed) = row_groups
    /\ \A i \in 1..Len(observed) : ~Crosses(observed[i])

C9_Witness ==
  /\ CapacityExceeded
  /\ args.max_row_groups = 1
  /\ args.overshoot_pct = 50
  /\ CallTarget = 2
  /\ observed = <<2>>

\* ------------------------------------------------------------------ C10
\* the operation at place i of a call's loop: synth, open, append, stat on
\* the first iteration and synth, append, stat on the later ones
ExpectedOp(i) ==
  IF i <= 4
  THEN <<"synth", "open", "append", "stat">>[i]
  ELSE <<"synth", "append", "stat">>[((i - 5) % 3) + 1]

\* C10: within a call the sink is opened at most once, after the first batch
\* was synthesized and before the first append; every append happens while
\* the sink is open; and the steps of the loop follow one another strictly:
\* synthesize batch n, append batch n, read the size, and only then
\* synthesize batch n + 1.
C10_SinkProtocol ==
  /\ Count("open") <= 1
  /\ \A i \in 1..Len(BodyLog) : BodyLog[i] = ExpectedOp(i)
  /\ \A i \in 1..Len(log) :
       log[i] = "append" =>
         /\ \E j \in 1..(i - 1) : log[j] = "open"
         /\ \A j \in 1..(i - 1) : log[j] # "close"
  /\ InCall => (writer = "open" <=> Count("open") = 1)

C10_Witness ==
  /\ Len(BodyLog) = 7
  /\ Count("open") = 1
  /\ Count("append") = 2

====
